---- MODULE Spec2Model ----
(***************************************************************************)
(* Ward room optimisation: the ILP optimiser (WardOptimizer), the brute    *)
(* force landscape sweep (OptimizationCharts), the configuration models    *)
(* (BaseModel, OptimizedModel, CustomModel, CurrentModel) and the capacity *)
(* analyser (CapacityAnalyzer).                                            *)
(*                                                                         *)
(* A census row is a record [single_patients, double_patients,             *)
(* closed_rooms] (the columns 'Total Single Room Patients', 'Double Room   *)
(* Patients' and 'Closed Rooms'); a dataset is a sequence of rows.         *)
(* A float ratio is the pair <<numerator, denominator>>.                   *)
(***************************************************************************)
EXTENDS Integers, Sequences, FiniteSets, TLC

(*************************** program constants *****************************)
\* config.WARD values; CurrentModel(0, 13) passes BaseModel's bed check
TOTAL_BEDS == 26
MAX_DOUBLE_ROOMS == 13
MAX_SINGLE_ROOMS == 26
DEFAULT_SINGLE_ROOMS == 10
DEFAULT_DOUBLE_ROOMS == 8
DOUBLE_ROOM_CAPACITY == 2

(******************************* bounds ************************************)
\* datasets hold at most MaxDays rows
MaxDays == 2
\* patient counts of a dataset row are k * CountStep, k in 0..MaxCountIdx
MaxCountIdx == 2
CountStep == 10
\* closed rooms per day are 0..MaxClosed
MaxClosed == 1
\* single-day operations take counts 0..MaxPatients
MaxPatients == 28

\* Python's None
None == [none |-> TRUE]

Max(a, b) == IF a >= b THEN a ELSE b
Min(a, b) == IF a <= b THEN a ELSE b

RECURSIVE SumSeq(_)
SumSeq(s) == IF s = <<>> THEN 0 ELSE Head(s) + SumSeq(Tail(s))

\* the least element of a non-empty set of integers
Least(S) == CHOOSE m \in S : \A v \in S : m <= v

(************************* datasets of the model ***************************)
Counts == {k * CountStep : k \in 0..MaxCountIdx}
ValidRows == [single_patients : Counts, double_patients : Counts, closed_rooms : 0..MaxClosed]
\* WardOptimizer.load_data validates no count: a CSV row may hold a negative one
CorruptRows ==
    {[single_patients |-> 0 - 1, double_patients |-> 0, closed_rooms |-> 0],
     [single_patients |-> 0, double_patients |-> 0 - 1, closed_rooms |-> 0]}
Rows == ValidRows \cup CorruptRows
Datasets == UNION {[1..n -> Rows] : n \in 0..MaxDays}

NonNegative(d) ==
    \A i \in 1..Len(d) : d[i].single_patients >= 0 /\ d[i].double_patients >= 0

\* DataVersionManager._load_version_metadata without a metadata file: the
\* table is a dictionary, shown as its entries in insertion order
NoVersions == [versions |-> <<>>, current |-> None]

VARIABLES
    data,        \* WardOptimizer.data / OptimizationCharts.data: the loaded dataset
    pc,          \* position inside optimize_space: "idle", "built", "solved"
                 \* ("unloaded": a new optimizer whose data is still None)
    problem,     \* WardOptimizer.problem: None or the constraints of the last build
    solved,      \* what the solver left in the problem: status and variable values
    results,     \* WardOptimizer.results: None or the stored dictionary
    returned,    \* outcome of the last completed optimize_space call
    landscape,   \* OptimizationCharts.optimization_results: None or the matrices
    model,       \* the configuration model object last constructed, or None
    call,        \* the last model / analyser call: operation, arguments, outcome
    results_df,  \* BaseModel.results_df, the frame handed to EfficiencyCalculator
    census_file, \* the rows of the training data file the pipeline reads
    versions     \* DataVersionManager.versions: the version table and the current pointer

vars == <<data, pc, problem, solved, results, returned, landscape, model, call, results_df,
          census_file, versions>>

(***************************************************************************)
(* ConstraintBuilder: the constraints as predicates over variable values.  *)
(***************************************************************************)
\* the bed constraint written as an upper limit only
BedCapacityAtMost(D, S) == DOUBLE_ROOM_CAPACITY * D + S <= TOTAL_BEDS
\* add_bed_capacity_constraint: DOUBLE_ROOM_CAPACITY * D + S == TOTAL_BEDS
BedCapacityConstraint(D, S) == DOUBLE_ROOM_CAPACITY * D + S = TOTAL_BEDS

\* LpVariable bounds of D and S
DecisionBounds(D, S) ==
    /\ D \in 0..MAX_DOUBLE_ROOMS
    /\ S \in 0..MAX_SINGLE_ROOMS

\* the single_in_double constraints with the cap strict
SingleInDoubleStrictCap(v, single_rooms_needed, S) ==
    /\ v >= 0
    /\ v >= single_rooms_needed - S
    /\ v < single_rooms_needed
\* the single_in_double constraints without the lower constraint
SingleInDoubleNoLower(v, single_rooms_needed, S) ==
    /\ v >= 0
    /\ v <= single_rooms_needed
\* add_daily_constraints, single_in_double: integer, lowBound 0,
\* >= single_rooms_needed - S, <= single_rooms_needed
SingleInDoubleConstraints(v, single_rooms_needed, S) ==
    /\ v >= 0
    /\ v >= single_rooms_needed - S
    /\ v <= single_rooms_needed

\* add_daily_constraints, double_in_single: integer, lowBound 0,
\* >= double_rooms_needed - DOUBLE_ROOM_CAPACITY * D, <= double_rooms_needed
DoubleInSingleConstraints(v, double_rooms_needed, D) ==
    /\ v >= 0
    /\ v >= double_rooms_needed - DOUBLE_ROOM_CAPACITY * D
    /\ v <= double_rooms_needed

\* the values single_in_double_i / double_in_single_i may take for given S, D
SingleInDoubleValues(need, S) ==
    {v \in 0..Max(need, 0) : SingleInDoubleConstraints(v, need, S)}
DoubleInSingleValues(need, D) ==
    {v \in 0..Max(need, 0) : DoubleInSingleConstraints(v, need, D)}

\* a build that keeps the daily constraints of the problem of the earlier run
BuiltProblemKeepsEarlier(d) ==
    LET earlier == IF problem = None THEN <<>> ELSE problem.rows
        rows == earlier \o [i \in 1..Len(d) |->
                               [single_rooms_needed |-> d[i].single_patients,
                                double_rooms_needed |-> d[i].double_patients]]
    IN  [rows |-> rows, constraint_count |-> 1 + 4 * Len(rows) + 2]

\* optimize_space up to the solve: the problem built from the dataset. rows are the
\* (single_rooms_needed, double_rooms_needed) pairs of the daily constraints;
\* constraint_count is ConstraintBuilder.constraint_count
BuiltProblem(d) ==
    [rows |-> [i \in 1..Len(d) |->
                  [single_rooms_needed |-> d[i].single_patients,
                   double_rooms_needed |-> d[i].double_patients]],
     constraint_count |-> 1 + 4 * Len(d) + 2]

(***************************************************************************)
(* The solve (pulp / CBC).  Given D and S the daily variables are          *)
(* constrained independently of one another and the objective is their     *)
(* plain sum, so a solution is optimal exactly when (D, S) has the least   *)
(* attainable sum and every daily variable takes the least value its       *)
(* constraints allow.                                                      *)
(***************************************************************************)
DayFeasible(row, D, S) ==
    /\ SingleInDoubleValues(row.single_rooms_needed, S) # {}
    /\ DoubleInSingleValues(row.double_rooms_needed, D) # {}

\* the (D, S) pairs for which the whole constraint system has an integer solution
FeasibleConfigs(p) ==
    {c \in (0..MAX_DOUBLE_ROOMS + 1) \X (0..MAX_SINGLE_ROOMS + 1) :
        /\ DecisionBounds(c[1], c[2])
        /\ BedCapacityConstraint(c[1], c[2])
        /\ \A i \in 1..Len(p.rows) : DayFeasible(p.rows[i], c[1], c[2])}

\* the variable values of the least-objective solution with the given D and S;
\* TotalWastedBeds / TotalWastedPotential are the accumulation equalities
BestAssignment(p, D, S) ==
    LET sid == [i \in 1..Len(p.rows) |->
                   Least(SingleInDoubleValues(p.rows[i].single_rooms_needed, S))]
        dis == [i \in 1..Len(p.rows) |->
                   Least(DoubleInSingleValues(p.rows[i].double_rooms_needed, D))]
    IN  [D |-> D, S |-> S,
         single_in_double |-> sid,
         double_in_single |-> dis,
         total_wasted_beds |-> SumSeq(sid),
         total_wasted_potential |-> SumSeq(dis)]

\* the objective of set_minimize_wasted_beds_only
ObjectiveBedsOnly(x) == x.total_wasted_beds

\* set_minimize_waste_objective with the default weights 1.0, 1.0
Objective(x) == x.total_wasted_beds + x.total_wasted_potential

OptimalSolutions(p) ==
    LET cand == {BestAssignment(p, c[1], c[2]) : c \in FeasibleConfigs(p)}
    IN  {x \in cand : \A y \in cand : Objective(x) <= Objective(y)}

\* what a solve that ends non-optimal may leave in the variables: nothing
\* (varValue None), or each variable at a bound, the constraints unmet
Leftovers(p) ==
    {None} \cup
    {[D |-> d, S |-> s,
      single_in_double |-> [i \in 1..Len(p.rows) |-> 0],
      double_in_single |-> [i \in 1..Len(p.rows) |-> 0],
      total_wasted_beds |-> 0,
      total_wasted_potential |-> 0] : d \in {0, MAX_DOUBLE_ROOMS}, s \in {0, MAX_SINGLE_ROOMS}}

(***************************************************************************)
(* WardOptimizer                                                           *)
(***************************************************************************)
\* _extract_results: the returned tuple (also stored as self.results)
ExtractedResults(status, x) ==
    LET total_free_beds == TOTAL_BEDS - (2 * x.D + x.S)
    IN  [double_rooms |-> x.D,
         single_rooms |-> x.S,
         total_wasted_beds |-> x.total_wasted_beds,
         total_wasted_potential |-> x.total_wasted_potential,
         total_free_beds |-> total_free_beds,
         efficiency |-> <<TOTAL_BEDS - total_free_beds - x.total_wasted_beds
                              - x.total_wasted_potential, TOTAL_BEDS>>,
         solver_status |-> status,
         objective_value |-> Objective(x)]

\* optimize_space, lines 88-138: a fresh problem with fresh, valueless variables
\* is built from self.data; the call has not returned yet
BuildProblem ==
    /\ pc = "idle"
    /\ problem' = BuiltProblem(data)
    /\ solved' = None
    /\ returned' = None
    /\ pc' = "built"
    /\ UNCHANGED <<versions, census_file, data, results_df, results, landscape, model, call>>

\* _solve_problem: the solver sets the status and the variable values
SolveProblem ==
    /\ pc = "built"
    /\ LET optimal == OptimalSolutions(problem)
       IN  \/ /\ optimal # {}
              /\ \E x \in optimal :
                    solved' = [status |-> "Optimal", assigned |-> TRUE, values |-> x]
           \/ /\ optimal = {}
              /\ \E g \in Leftovers(problem) :
                    solved' = [status |-> "Infeasible", assigned |-> g # None, values |-> g]
    /\ pc' = "solved"
    /\ UNCHANGED <<versions, census_file, data, results_df, problem, results, returned, landscape, model, call>>

\* _extract_results storing the dictionary only while none is stored
ExtractResultsKeepsFirst ==
    /\ pc = "solved"
    /\ IF ~solved.assigned
       THEN /\ returned' = [kind |-> "raised", error |-> "TypeError"]
            /\ UNCHANGED results
       ELSE /\ results' = IF results = None
                          THEN ExtractedResults(solved.status, solved.values)
                          ELSE results
            /\ returned' = [kind |-> "value",
                            value |-> ExtractedResults(solved.status, solved.values)]
    /\ pc' = "idle"
    /\ UNCHANGED <<versions, census_file, data, results_df, problem, solved, landscape, model, call>>

\* _extract_results: int(pulp.value(D)) raises TypeError on an unset variable;
\* otherwise the tuple is stored and returned whatever the status
ExtractResults ==
    /\ pc = "solved"
    /\ IF ~solved.assigned
       THEN /\ returned' = [kind |-> "raised", error |-> "TypeError"]
            /\ UNCHANGED results
       ELSE /\ results' = ExtractedResults(solved.status, solved.values)
            /\ returned' = [kind |-> "value", value |-> results']
    /\ pc' = "idle"
    /\ UNCHANGED <<versions, census_file, data, results_df, problem, solved, landscape, model, call>>

(***************************************************************************)
(* OptimizedModel.evaluate_day                                             *)
(***************************************************************************)
\* evaluate_day without the max(0, .) clamps
EvaluateDayUnclamped(single_rooms, double_rooms, row) ==
    [Wasted_Beds |-> row.single_patients - single_rooms,
     Wasted_Potential |-> row.double_patients - double_rooms * DOUBLE_ROOM_CAPACITY]
\* evaluate_day: the returned dict
EvaluateDay(single_rooms, double_rooms, row) ==
    LET single_room_patients == row.single_patients
        double_room_patients == row.double_patients
        wasted_beds == Max(0, single_room_patients - single_rooms)
        double_room_capacity == double_rooms * DOUBLE_ROOM_CAPACITY
        wasted_potential == Max(0, double_room_patients - double_room_capacity)
    IN  [Wasted_Beds |-> wasted_beds, Wasted_Potential |-> wasted_potential]

(***************************************************************************)
(* OptimizationCharts.calculate_optimization_landscape                     *)
(***************************************************************************)
\* a float is <<numerator, denominator>>; np.nan is 0/0
NaN == <<0, 0>>
Float(v) == <<v, 1>>
IsNaN(x) == x[2] = 0

RECURSIVE SweepRows(_, _, _, _)
\* the loop over self.data.iterrows() for one (S, D): the running totals
SweepRows(d, S, D, acc) ==
    IF d = <<>> THEN acc
    ELSE LET row == Head(d)
             singles_in_double == Max(0, row.single_patients - S)
             doubles_in_single == Max(0, row.double_patients - 2 * D)
         IN  SweepRows(Tail(d), S, D,
                 [total_waste |-> acc.total_waste + singles_in_double + doubles_in_single,
                  total_singles_in_double |-> acc.total_singles_in_double + singles_in_double,
                  total_doubles_in_single |-> acc.total_doubles_in_single + doubles_in_single,
                  total_available |-> acc.total_available + (TOTAL_BEDS - row.closed_rooms)])

LandscapeFeasible(S, D) == 2 * D + S = TOTAL_BEDS

LandscapeGrid == (0..MAX_SINGLE_ROOMS) \X (0..MAX_DOUBLE_ROOMS)

\* the cell with the single room count and the double room beds exchanged
LandscapeCellRoomsSwapped(d, S, D) ==
    LET zero == [total_waste |-> 0, total_singles_in_double |-> 0,
                 total_doubles_in_single |-> 0, total_available |-> 0]
        tot == SweepRows(d, 2 * D, S \div 2, zero)
    IN  [objective_values |-> Float(tot.total_waste),
         singles_in_double |-> Float(tot.total_singles_in_double),
         doubles_in_single |-> Float(tot.total_doubles_in_single),
         efficiency |-> IF tot.total_available > 0
                        THEN <<(tot.total_available - tot.total_waste) * 100,
                               tot.total_available>>
                        ELSE NaN]
\* the cell with total_waste counting the singles in doubles only
LandscapeCellBedsOnly(d, S, D) ==
    LET zero == [total_waste |-> 0, total_singles_in_double |-> 0,
                 total_doubles_in_single |-> 0, total_available |-> 0]
        tot == SweepRows(d, S, D, zero)
    IN  [objective_values |-> Float(tot.total_singles_in_double),
         singles_in_double |-> Float(tot.total_singles_in_double),
         doubles_in_single |-> Float(tot.total_doubles_in_single),
         efficiency |-> IF tot.total_available > 0
                        THEN <<(tot.total_available - tot.total_singles_in_double) * 100,
                               tot.total_available>>
                        ELSE NaN]
\* the (S, D) cell of the four matrices, as the loop body assigns it
LandscapeCell(d, S, D) ==
    LET zero == [total_waste |-> 0, total_singles_in_double |-> 0,
                 total_doubles_in_single |-> 0, total_available |-> 0]
        tot == SweepRows(d, S, D, zero)
    IN  [objective_values |-> Float(tot.total_waste),
         singles_in_double |-> Float(tot.total_singles_in_double),
         doubles_in_single |-> Float(tot.total_doubles_in_single),
         efficiency |-> IF tot.total_available > 0
                        THEN <<(tot.total_available - tot.total_waste) * 100,
                               tot.total_available>>
                        ELSE NaN]

\* optimization_results: the cells the loop assigned; every other cell of the
\* np.full(..., np.nan) matrices keeps NaN (see LandscapeValue)
CalculatedLandscape(d) ==
    [assigned |-> [c \in {g \in LandscapeGrid : LandscapeFeasible(g[1], g[2])} |->
                      LandscapeCell(d, c[1], c[2])]]

\* matrix[S, D] of optimization_results, matrix one of the four field names
LandscapeValue(ls, matrix, S, D) ==
    IF <<S, D>> \in DOMAIN ls.assigned THEN ls.assigned[<<S, D>>][matrix] ELSE NaN

CalculateOptimizationLandscape ==
    /\ pc = "idle"
    /\ landscape' = CalculatedLandscape(data)
    /\ UNCHANGED <<versions, census_file, data, results_df, pc, problem, solved, results, returned, model, call>>

(***************************************************************************)
(* The optimiser and the landscape sweep on one dataset.                   *)
(***************************************************************************)
Init ==
    /\ data \in Datasets
    /\ pc = "idle"
    /\ problem = None
    /\ solved = None
    /\ results = None
    /\ returned = None
    /\ landscape = None
    /\ census_file = <<>>
    /\ versions = NoVersions
    /\ model = None
    /\ call = None
    /\ results_df = None

Next ==
    \/ BuildProblem
    \/ SolveProblem
    \/ ExtractResults
    \/ CalculateOptimizationLandscape

Spec == Init /\ [][Next]_vars

(***************************************************************************)
(* BaseModel, OptimizedModel, CustomModel, CurrentModel: construction.     *)
(* An optional argument is <<>> (None) or <<v>>.                           *)
(***************************************************************************)
\* Python's `x or default`: the default replaces None and every falsy value (0)
PyOr(x, default) == IF x = <<>> \/ x[1] = 0 THEN default ELSE x[1]

\* BaseModel.__init__: the fields, then the bed check
BaseModelInit(cls, single_rooms, double_rooms) ==
    LET total_beds == single_rooms + (2 * double_rooms)
    IN  IF total_beds # TOTAL_BEDS
        THEN [outcome |-> "ValueError"]
        ELSE [outcome |-> "ok",
              object |-> [cls |-> cls, single_rooms |-> single_rooms,
                          double_rooms |-> double_rooms]]

\* OptimizedModel.__init__(single_rooms=None, double_rooms=None)
OptimizedModelInit(cls, single_rooms, double_rooms) ==
    BaseModelInit(cls, PyOr(single_rooms, DEFAULT_SINGLE_ROOMS),
                       PyOr(double_rooms, DEFAULT_DOUBLE_ROOMS))

\* CustomModel.__init__(single_rooms, double_rooms): super().__init__(...)
CustomModelInit(single_rooms, double_rooms) ==
    OptimizedModelInit("CustomModel", <<single_rooms>>, <<double_rooms>>)

\* CurrentModel.__init__(): single_rooms=0, double_rooms=13
CurrentModelInit == BaseModelInit("CurrentModel", 0, 13)

\* CurrentModel.evaluate_day
CurrentEvaluateDay(row) ==
    [Wasted_Beds |-> row.single_patients, Wasted_Potential |-> 0]

(***************************************************************************)
(* CapacityAnalyzer                                                        *)
(***************************************************************************)
\* _calculate_room_usage with the double rooms taken by isolation patients
\* still offered to pairable patients
CalculateRoomUsageDoublesKept(single_patients, double_patients, single_rooms, double_rooms) ==
    LET singles_in_single == Min(single_patients, single_rooms)
        remaining_singles == Max(0, single_patients - single_rooms)
        double_capacity == double_rooms * DOUBLE_ROOM_CAPACITY
        doubles_accommodated == Min(double_patients, double_capacity)
        overflow0 == Max(0, double_patients - double_capacity)
        singles_for_doubles ==
            IF overflow0 > 0 /\ singles_in_single < single_rooms
            THEN Min(overflow0, single_rooms - singles_in_single)
            ELSE 0
    IN  [rooms_used |-> singles_in_single + remaining_singles
                          + (doubles_accommodated \div DOUBLE_ROOM_CAPACITY)
                          + (IF doubles_accommodated % DOUBLE_ROOM_CAPACITY > 0 THEN 1 ELSE 0)
                          + singles_for_doubles,
         beds_used |-> singles_in_single + remaining_singles + doubles_accommodated
                          + singles_for_doubles,
         singles_in_single |-> singles_in_single,
         singles_in_double |-> remaining_singles,
         doubles_in_double |-> doubles_accommodated,
         doubles_in_single |-> singles_for_doubles,
         overflow_patients |-> overflow0 - singles_for_doubles]
\* _calculate_room_usage
CalculateRoomUsage(single_patients, double_patients, single_rooms, double_rooms) ==
    LET singles_in_single == Min(single_patients, single_rooms)
        remaining_singles == Max(0, single_patients - single_rooms)
        doubles_for_singles == remaining_singles
        available_doubles == Max(0, double_rooms - doubles_for_singles)
        double_capacity == available_doubles * DOUBLE_ROOM_CAPACITY
        doubles_accommodated == Min(double_patients, double_capacity)
        overflow0 == Max(0, double_patients - double_capacity)
        singles_for_doubles ==
            IF overflow0 > 0 /\ singles_in_single < single_rooms
            THEN Min(overflow0, single_rooms - singles_in_single)
            ELSE 0
        overflow_doubles == overflow0 - singles_for_doubles
    IN  [rooms_used |-> singles_in_single + doubles_for_singles
                          + (doubles_accommodated \div DOUBLE_ROOM_CAPACITY)
                          + (IF doubles_accommodated % DOUBLE_ROOM_CAPACITY > 0 THEN 1 ELSE 0)
                          + singles_for_doubles,
         beds_used |-> singles_in_single + remaining_singles + doubles_accommodated
                          + singles_for_doubles,
         singles_in_single |-> singles_in_single,
         singles_in_double |-> remaining_singles,
         doubles_in_double |-> doubles_accommodated,
         doubles_in_single |-> singles_for_doubles,
         overflow_patients |-> overflow_doubles]

\* the loop body with is_max_capacity looking at the beds only
AnalyzedDayBedsOnly(m, row) ==
    LET room_usage == CalculateRoomUsage(row.single_patients, row.double_patients,
                                         m.single_rooms, m.double_rooms)
        available_beds == TOTAL_BEDS - row.closed_rooms
        used_beds == room_usage.beds_used
    IN  [room_usage |-> room_usage,
         available_beds |-> available_beds,
         utilization_rate |-> IF available_beds > 0
                              THEN <<used_beds * 100, available_beds>> ELSE Float(0),
         is_max_capacity |-> used_beds >= available_beds,
         would_turn_away |-> room_usage.overflow_patients > 0]
\* analyze_capacity, the loop body for one row (lines 59-84)
AnalyzedDay(m, row) ==
    LET single_rooms == m.single_rooms
        double_rooms == m.double_rooms
        total_rooms == single_rooms + double_rooms
        room_usage == CalculateRoomUsage(row.single_patients, row.double_patients,
                                         single_rooms, double_rooms)
        available_beds == TOTAL_BEDS - row.closed_rooms
        used_beds == room_usage.beds_used
    IN  [room_usage |-> room_usage,
         available_beds |-> available_beds,
         utilization_rate |-> IF available_beds > 0
                              THEN <<used_beds * 100, available_beds>> ELSE Float(0),
         is_max_capacity |-> \/ used_beds >= available_beds
                             \/ room_usage.rooms_used >= total_rooms
                             \/ room_usage.overflow_patients > 0,
         would_turn_away |-> room_usage.overflow_patients > 0]

(***************************************************************************)
(* Construction of the models (SpecModel).  The variable m of                *)
(* `m = OptimizedModel(...)` is bound by the first construction that does  *)
(* not raise; a construction that raises may be tried again.               *)
(***************************************************************************)
Optional(S) == {<<>>} \cup {<<v>> : v \in S}

\* m = OptimizedModel(single_rooms, double_rooms)
NewOptimizedModel ==
    /\ model = None
    /\ \E s \in Optional(0..MAX_SINGLE_ROOMS), d \in Optional(0..MAX_DOUBLE_ROOMS) :
          LET r == OptimizedModelInit("OptimizedModel", s, d)
          IN  /\ call' = [op |-> "OptimizedModel", single_rooms |-> s,
                          double_rooms |-> d, outcome |-> r.outcome]
              /\ model' = IF r.outcome = "ok" THEN r.object ELSE model
    /\ UNCHANGED <<versions, census_file, data, results_df, pc, problem, solved, results, returned, landscape>>

\* m = CustomModel(single_rooms, double_rooms)
NewCustomModel ==
    /\ model = None
    /\ \E s \in 0..MAX_SINGLE_ROOMS, d \in 0..MAX_DOUBLE_ROOMS :
          LET r == CustomModelInit(s, d)
          IN  /\ call' = [op |-> "CustomModel", single_rooms |-> <<s>>,
                          double_rooms |-> <<d>>, outcome |-> r.outcome]
              /\ model' = IF r.outcome = "ok" THEN r.object ELSE model
    /\ UNCHANGED <<versions, census_file, data, results_df, pc, problem, solved, results, returned, landscape>>

\* m = CurrentModel()
NewCurrentModel ==
    /\ model = None
    /\ LET r == CurrentModelInit
       IN  /\ call' = [op |-> "CurrentModel", single_rooms |-> <<>>,
                       double_rooms |-> <<>>, outcome |-> r.outcome]
           /\ model' = IF r.outcome = "ok" THEN r.object ELSE model
    /\ UNCHANGED <<versions, census_file, data, results_df, pc, problem, solved, results, returned, landscape>>

InitModel ==
    /\ data = <<>>
    /\ pc = "idle"
    /\ problem = None
    /\ solved = None
    /\ results = None
    /\ returned = None
    /\ landscape = None
    /\ census_file = <<>>
    /\ versions = NoVersions
    /\ model = None
    /\ call = None
    /\ results_df = None

NextModel ==
    \/ NewOptimizedModel
    \/ NewCustomModel
    \/ NewCurrentModel

SpecModel == InitModel /\ [][NextModel]_vars

(***************************************************************************)
(* One census day under a constructed model (SpecDay): the model is any    *)
(* object a constructor returns, the census holds one row.                 *)
(***************************************************************************)
DayRows == [single_patients : 0..MaxPatients, double_patients : 0..MaxPatients,
            closed_rooms : 0..MaxClosed]

ConstructedModels ==
    LET made == {OptimizedModelInit("OptimizedModel", s, d) :
                    s \in Optional(0..MAX_SINGLE_ROOMS),
                    d \in Optional(0..MAX_DOUBLE_ROOMS)}
                \cup {CustomModelInit(s, d) :
                    s \in 0..MAX_SINGLE_ROOMS, d \in 0..MAX_DOUBLE_ROOMS}
                \cup {CurrentModelInit}
    IN  {r.object : r \in {x \in made : x.outcome = "ok"}}

\* m.evaluate_day(row) for the row of the census
EvaluateDayCall ==
    /\ \E i \in 1..Len(data) :
          call' = [op |-> "evaluate_day", row |-> data[i],
                   result |-> IF model.cls = "CurrentModel"
                              THEN CurrentEvaluateDay(data[i])
                              ELSE EvaluateDay(model.single_rooms, model.double_rooms,
                                               data[i])]
    /\ UNCHANGED <<versions, census_file, data, results_df, pc, problem, solved, results, returned, landscape, model>>

\* CapacityAnalyzer(m).analyze_capacity(census): the loop body for the row
AnalyzeCapacityDay ==
    /\ \E i \in 1..Len(data) :
          call' = [op |-> "analyze_capacity", row |-> data[i],
                   result |-> AnalyzedDay(model, data[i])]
    /\ UNCHANGED <<versions, census_file, data, results_df, pc, problem, solved, results, returned, landscape, model>>

InitDay ==
    /\ data \in [1..1 -> DayRows]
    /\ pc = "idle"
    /\ problem = None
    /\ solved = None
    /\ results = None
    /\ returned = None
    /\ landscape = None
    /\ census_file = <<>>
    /\ versions = NoVersions
    /\ model \in ConstructedModels
    /\ call = None
    /\ results_df = None

NextDay ==
    \/ EvaluateDayCall
    \/ AnalyzeCapacityDay

SpecDay == InitDay /\ [][NextDay]_vars

(***************************************************************************)
(* Properties of the optimiser and the landscape sweep (under Spec).       *)
(***************************************************************************)
\* the configurations on the feasible line, within the room bounds
FeasibleLine ==
    {c \in LandscapeGrid : c[1] + 2 * c[2] = TOTAL_BEDS}

\* total waste of configuration (S, D) over dataset d by the evaluator
RECURSIVE EvaluatorTotals(_, _, _)
EvaluatorTotals(d, S, D) ==
    IF d = <<>> THEN [Wasted_Beds |-> 0, Wasted_Potential |-> 0]
    ELSE LET day == EvaluateDay(S, D, Head(d))
             rest == EvaluatorTotals(Tail(d), S, D)
         IN  [Wasted_Beds |-> day.Wasted_Beds + rest.Wasted_Beds,
              Wasted_Potential |-> day.Wasted_Potential + rest.Wasted_Potential]

\* np.nanmin of the objective matrix
LandscapeMinimum(ls) ==
    Least({x[1] : x \in {v \in {LandscapeValue(ls, "objective_values", c[1], c[2]) :
                                   c \in LandscapeGrid} : ~IsNaN(v)}})

Completed == pc = "idle" /\ returned # None
ReturnedValue == Completed /\ returned.kind = "value"
ReturnedOptimal == ReturnedValue /\ returned.value.solver_status = "Optimal"

\* C1: for a dataset of non-negative counts, a completed optimize_space call
\* returns a result, and its total_wasted_beds + total_wasted_potential is the
\* least total waste among the feasible cells of the landscape sweep of the
\* same dataset.
C1_OptimizerMatchesLandscapeMinimum ==
    (Completed /\ landscape # None /\ NonNegative(data)) =>
        /\ returned.kind = "value"
        /\ returned.value.total_wasted_beds + returned.value.total_wasted_potential
              = LandscapeMinimum(landscape)

\* C1 witness: two days whose demands conflict, so the least waste is positive
C1_Witness ==
    /\ ReturnedValue /\ landscape # None /\ NonNegative(data)
    /\ Len(data) = 2
    /\ returned.value.total_wasted_beds > 0
    /\ returned.value.total_wasted_potential > 0

\* C3: every feasible cell of the landscape holds the evaluator's sums over the
\* dataset (total, singles-in-double, doubles-in-single), and the objective
\* value of an optimal solution is the evaluator's total for its configuration.
C3_LandscapeEvaluatorOptimizerAgree ==
    /\ landscape # None =>
          \A c \in FeasibleLine :
             LET t == EvaluatorTotals(data, c[1], c[2])
             IN  /\ LandscapeValue(landscape, "objective_values", c[1], c[2])
                       = Float(t.Wasted_Beds + t.Wasted_Potential)
                 /\ LandscapeValue(landscape, "singles_in_double", c[1], c[2])
                       = Float(t.Wasted_Beds)
                 /\ LandscapeValue(landscape, "doubles_in_single", c[1], c[2])
                       = Float(t.Wasted_Potential)
    /\ ReturnedOptimal =>
          LET t == EvaluatorTotals(data, returned.value.single_rooms,
                                   returned.value.double_rooms)
          IN  returned.value.objective_value = t.Wasted_Beds + t.Wasted_Potential

\* C3 witness: both are computed and the agreed total is positive
C3_Witness ==
    /\ ReturnedOptimal /\ landscape # None
    /\ returned.value.objective_value > 0
    /\ LandscapeValue(landscape, "objective_values", returned.value.single_rooms,
                      returned.value.double_rooms)
          = Float(returned.value.objective_value)

C8_WasteNonNegative ==
    /\ \A i \in 1..Len(data) : \A c \in LandscapeGrid :
          /\ EvaluateDay(c[1], c[2], data[i]).Wasted_Beds >= 0
          /\ EvaluateDay(c[1], c[2], data[i]).Wasted_Potential >= 0
    /\ (solved # None /\ solved.status = "Optimal") =>
          /\ \A i \in 1..Len(data) :
                /\ solved.values.single_in_double[i] >= 0
                /\ solved.values.double_in_single[i] >= 0
          /\ solved.values.total_wasted_beds >= 0
          /\ solved.values.total_wasted_potential >= 0
    /\ ReturnedOptimal =>
          /\ returned.value.total_wasted_beds >= 0
          /\ returned.value.total_wasted_potential >= 0

\* C8 witness: a solved day whose demand is below the room counts (the
\* unclamped differences are negative) next to a day with positive waste
C8_Witness ==
    /\ ReturnedOptimal
    /\ \E i \in 1..Len(data) :
          data[i].single_patients < returned.value.single_rooms
    /\ \E i \in 1..Len(data) : solved.values.single_in_double[i] > 0

\* C9: for a dataset of non-negative counts the constraint system built by
\* optimize_space has an integer solution, and the solve never ends Infeasible.
C9_AlwaysFeasible ==
    /\ (pc = "built" /\ NonNegative(data)) => FeasibleConfigs(problem) # {}
    /\ (solved # None /\ NonNegative(data)) => solved.status = "Optimal"

\* C9 witness: a solved problem with daily constraints from two valid days
C9_Witness ==
    /\ pc = "solved" /\ NonNegative(data) /\ Len(data) = 2
    /\ solved.status = "Optimal"
    /\ problem.constraint_count = 11

\* C10 (as claimed): when the solve ends non-optimal, optimize_space returns a
\* result carrying that status and does not raise, and the configuration in it
\* is not a defaulted pair, such as (0, 0), that solves nothing.
C10_NonOptimalSurfaced ==
    (Completed /\ solved # None /\ solved.status # "Optimal") =>
        /\ returned.kind = "value"
        /\ returned.value.solver_status = solved.status
        /\ returned.value.single_rooms + 2 * returned.value.double_rooms = TOTAL_BEDS

(***************************************************************************)
(* Properties of one census day (under SpecDay) and of the construction    *)
(* of the models (under SpecModel).                                        *)
(***************************************************************************)
Evaluated == call # None /\ call.op = "evaluate_day"
Analyzed == call # None /\ call.op = "analyze_capacity"
Constructor == call # None /\ call.op \in {"OptimizedModel", "CustomModel", "CurrentModel"}

\* C2: for every configuration (S, D) and every row of non-negative counts,
\* evaluate_day gives wasted_beds = max(0, isolation - S) and
\* wasted_potential = max(0, pairable - 2 * D).
C2_EvaluateDayIsClampedExcess ==
    /\ (Evaluated /\ model.cls # "CurrentModel") =>
          /\ call.result.Wasted_Beds
                = (IF call.row.single_patients > model.single_rooms
                   THEN call.row.single_patients - model.single_rooms ELSE 0)
          /\ call.result.Wasted_Potential
                = (IF call.row.double_patients > 2 * model.double_rooms
                   THEN call.row.double_patients - 2 * model.double_rooms ELSE 0)
    /\ \A i \in 1..Len(data) : \A c \in FeasibleLine :
          LET r == EvaluateDay(c[1], c[2], data[i])
          IN  /\ r.Wasted_Beds = (IF data[i].single_patients > c[1]
                                  THEN data[i].single_patients - c[1] ELSE 0)
              /\ r.Wasted_Potential = (IF data[i].double_patients > 2 * c[2]
                                       THEN data[i].double_patients - 2 * c[2] ELSE 0)
    /\ EvaluateDay(0, 13, [single_patients |-> 5, double_patients |-> 10,
                           closed_rooms |-> 0])
          = [Wasted_Beds |-> 5, Wasted_Potential |-> 0]

\* C2 witness: both kinds of waste on one evaluated day
C2_Witness ==
    /\ Evaluated /\ model.cls = "OptimizedModel"
    /\ call.result.Wasted_Beds > 0
    /\ call.result.Wasted_Potential > 0

\* the five-step placement policy: how many of the day's patients stay unplaced
PolicyUnplaced(single_patients, double_patients, single_rooms, double_rooms) ==
    LET iso_in_single == Min(single_patients, single_rooms)
        iso_in_double == Min(single_patients - iso_in_single, double_rooms)
        iso_unplaced == single_patients - iso_in_single - iso_in_double
        doubles_left == double_rooms - iso_in_double
        pair_in_double == Min(double_patients, 2 * doubles_left)
        pair_in_single == Min(double_patients - pair_in_double,
                              single_rooms - iso_in_single)
        pair_unplaced == double_patients - pair_in_double - pair_in_single
    IN  iso_unplaced + pair_unplaced

\* C5 (as claimed): a day is would_turn_away exactly when a patient of the day,
\* isolation or pairable, stays unplaced after the five steps; so a day with
\* more isolation patients than single_rooms + double_rooms is a turn-away day.
C5_TurnAwayIffUnplaced ==
    Analyzed =>
        /\ call.result.would_turn_away
              <=> (PolicyUnplaced(call.row.single_patients, call.row.double_patients,
                                  model.single_rooms, model.double_rooms) > 0)
        /\ call.row.single_patients > model.single_rooms + model.double_rooms
              => call.result.would_turn_away

\* C6: _calculate_room_usage places in the stated order: isolation patients in
\* single rooms up to single_rooms; every further isolation patient takes a
\* whole double room; pairable patients fill the double rooms left, two a
\* room; the pairable excess goes to single rooms isolation left free;
\* overflow_patients is the pairable count still unplaced.
C6_PlacementOrder ==
    /\ Analyzed =>
          call.result.room_usage
             = CalculateRoomUsage(call.row.single_patients, call.row.double_patients,
                                  model.single_rooms, model.double_rooms)
    /\ \A i \in 1..Len(data) : \A c \in FeasibleLine :
          LET iso == data[i].single_patients
              pair == data[i].double_patients
              S == c[1]
              D == c[2]
              u == CalculateRoomUsage(iso, pair, S, D)
              left == IF D > u.singles_in_double THEN D - u.singles_in_double ELSE 0
          IN  /\ u.singles_in_single = Min(iso, S)
              /\ u.singles_in_double = iso - u.singles_in_single
              /\ u.doubles_in_double = Min(pair, 2 * left)
              /\ u.doubles_in_single = Min(pair - u.doubles_in_double,
                                           S - u.singles_in_single)
              /\ u.overflow_patients = pair - u.doubles_in_double - u.doubles_in_single
    /\ CalculateRoomUsage(12, 14, 10, 8).overflow_patients = 2

\* C6 witness: the day of the example under the (10, 8) model
C6_Witness ==
    /\ Analyzed
    /\ model.single_rooms = 10 /\ model.double_rooms = 8
    /\ call.row.single_patients = 12 /\ call.row.double_patients = 14
    /\ call.result.room_usage.singles_in_double = 2
    /\ call.result.room_usage.doubles_in_double = 12
    /\ call.result.room_usage.overflow_patients = 2
    /\ call.result.would_turn_away

\* C7 (as claimed): constructing a model from an explicitly supplied pair that
\* violates single_rooms + 2 * double_rooms = TOTAL_BEDS raises, and a model
\* that is constructed holds the supplied values, none replaced.
C7_InvalidPairRejected ==
    (Constructor /\ call.single_rooms # <<>> /\ call.double_rooms # <<>>) =>
        /\ call.single_rooms[1] + 2 * call.double_rooms[1] # TOTAL_BEDS
              => call.outcome = "ValueError"
        /\ call.outcome = "ok"
              => /\ model.single_rooms = call.single_rooms[1]
                 /\ model.double_rooms = call.double_rooms[1]

(***************************************************************************)
(* Further properties of the landscape sweep (under Spec).                 *)
(***************************************************************************)
\* the four matrices of optimization_results
LandscapeMatrices == {"objective_values", "singles_in_double", "doubles_in_single",
                      "efficiency"}

\* C11 (as claimed): after the sweep a pair (S, D) of the grid has a defined
\* (non-NaN) total waste, wasted beds, wasted potential and efficiency exactly
\* when 2 * D + S = TOTAL_BEDS, and the marker of every other pair differs from
\* the value of a zero waste.
C11_DefinedIffFeasible ==
    landscape # None =>
        \A c \in LandscapeGrid :
            /\ (\A matrix \in LandscapeMatrices :
                    ~IsNaN(LandscapeValue(landscape, matrix, c[1], c[2])))
                  <=> (2 * c[2] + c[1] = TOTAL_BEDS)
            /\ 2 * c[2] + c[1] # TOTAL_BEDS =>
                  \A matrix \in LandscapeMatrices :
                      LandscapeValue(landscape, matrix, c[1], c[2]) # Float(0)

(***************************************************************************)
(* Whole-dataset analysis under a constructed model (SpecAnalysis):        *)
(* CapacityAnalyzer.analyze_capacity and BaseModel.evaluate.               *)
(***************************************************************************)
\* float arithmetic on <<numerator, denominator>> pairs, denominators > 0
FloatAdd(a, b) == <<a[1] * b[2] + b[1] * a[2], a[2] * b[2]>>
FloatLE(a, b) == a[1] * b[2] <= b[1] * a[2]
FloatEq(a, b) == a[1] * b[2] = b[1] * a[2]

RECURSIVE FloatSum(_)
FloatSum(s) == IF s = <<>> THEN Float(0) ELSE FloatAdd(Head(s), FloatSum(Tail(s)))

\* Series.mean(), .min(), .max() of a non-empty column
SeriesMean(s) == <<FloatSum(s)[1], FloatSum(s)[2] * Len(s)>>
SeriesMin(s) == s[CHOOSE i \in 1..Len(s) : \A j \in 1..Len(s) : FloatLE(s[i], s[j])]
SeriesMax(s) == s[CHOOSE i \in 1..Len(s) : \A j \in 1..Len(s) : FloatLE(s[j], s[i])]

\* analyze_capacity: the loop over the census, then the summary; the division
\* by total_days raises on an empty census before the dictionary is stored.
\* std_utilization and the DataFrames of the dictionary are left out.
AnalyzeCapacityResults(m, census_data) ==
    LET daily == [i \in 1..Len(census_data) |-> AnalyzedDay(m, census_data[i])]
        max_capacity_days == {i \in 1..Len(census_data) : daily[i].is_max_capacity}
        turned_away_events == {i \in 1..Len(census_data) : daily[i].would_turn_away}
        total_days == Len(census_data)
        utilization == [i \in 1..Len(census_data) |-> daily[i].utilization_rate]
    IN  IF total_days = 0
        THEN [outcome |-> "ZeroDivisionError"]
        ELSE [outcome |-> "ok",
              value |-> [total_days |-> total_days,
                         max_capacity_days |-> Cardinality(max_capacity_days),
                         max_capacity_percent |->
                             <<Cardinality(max_capacity_days) * 100, total_days>>,
                         turn_away_events |-> Cardinality(turned_away_events),
                         turn_away_percent |->
                             <<Cardinality(turned_away_events) * 100, total_days>>,
                         avg_utilization |-> SeriesMean(utilization),
                         min_utilization |-> SeriesMin(utilization),
                         max_utilization |-> SeriesMax(utilization),
                         daily |-> daily,
                         max_capacity_dates |-> max_capacity_days,
                         turn_away_dates |-> turned_away_events]]

\* CapacityAnalyzer(model).analyze_capacity(data)
AnalyzeCapacity ==
    /\ LET r == AnalyzeCapacityResults(model, data)
       IN  call' = [op |-> "analyze_capacity", census_data |-> data,
                    outcome |-> r.outcome,
                    result |-> IF r.outcome = "ok" THEN r.value ELSE None]
    /\ UNCHANGED <<versions, census_file, data, results_df, pc, problem, solved, results, returned, landscape, model>>

\* BaseModel.evaluate, the loop body: the day_result of one row
EvaluatedRow(m, row) ==
    LET evaluation == IF m.cls = "CurrentModel"
                      THEN CurrentEvaluateDay(row)
                      ELSE EvaluateDay(m.single_rooms, m.double_rooms, row)
        available_beds == TOTAL_BEDS - row.closed_rooms
        wasted_beds == evaluation.Wasted_Beds
        wasted_potential == evaluation.Wasted_Potential
    IN  [Total_Single_Patients |-> row.single_patients,
         Double_Room_Patients |-> row.double_patients,
         Closed_Rooms |-> row.closed_rooms,
         Wasted_Beds |-> wasted_beds,
         Wasted_Potential |-> wasted_potential,
         Available_Beds |-> available_beds,
         Efficiency |-> IF available_beds > 0
                        THEN <<(available_beds - wasted_beds - wasted_potential) * 100,
                               available_beds>>
                        ELSE Float(0)]

\* BaseModel._calculate_metrics over a non-empty results_df
CalculatedMetrics(m, df) ==
    LET efficiency == [i \in 1..Len(df) |-> df[i].Efficiency]
    IN  [single_rooms |-> m.single_rooms,
         double_rooms |-> m.double_rooms,
         total_days |-> Len(df),
         total_wasted_beds |-> SumSeq([i \in 1..Len(df) |-> df[i].Wasted_Beds]),
         total_wasted_potential |-> SumSeq([i \in 1..Len(df) |-> df[i].Wasted_Potential]),
         avg_efficiency |-> SeriesMean(efficiency),
         min_efficiency |-> SeriesMin(efficiency),
         max_efficiency |-> SeriesMax(efficiency),
         days_with_waste |-> Cardinality({i \in 1..Len(df) : df[i].Wasted_Beds > 0}),
         days_with_wasted_potential |->
             Cardinality({i \in 1..Len(df) : df[i].Wasted_Potential > 0})]

\* model.evaluate() on the loaded data: results_df is stored, then the metrics;
\* pd.DataFrame([]) has no columns, so the metrics of an empty dataset raise
Evaluate ==
    /\ results_df' = [i \in 1..Len(data) |-> EvaluatedRow(model, data[i])]
    /\ call' = IF Len(data) = 0
               THEN [op |-> "evaluate", outcome |-> "KeyError", metrics |-> None]
               ELSE [op |-> "evaluate", outcome |-> "ok",
                     metrics |-> CalculatedMetrics(model, results_df')]
    /\ UNCHANGED <<versions, census_file, data, pc, problem, solved, results, returned, landscape, model>>

\* the datasets analysed: the counts of Datasets and one count above TOTAL_BEDS
AnalysisRows == [single_patients : Counts \cup {MaxPatients},
                 double_patients : Counts \cup {MaxPatients},
                 closed_rooms : 0..MaxClosed]
AnalysisDatasets == UNION {[1..n -> AnalysisRows] : n \in 0..MaxDays}

InitAnalysis ==
    /\ data \in AnalysisDatasets
    /\ pc = "idle"
    /\ problem = None
    /\ solved = None
    /\ results = None
    /\ returned = None
    /\ landscape = None
    /\ census_file = <<>>
    /\ versions = NoVersions
    /\ model \in ConstructedModels
    /\ call = None
    /\ results_df = None

NextAnalysis ==
    \/ AnalyzeCapacity
    \/ Evaluate

SpecAnalysis == InitAnalysis /\ [][NextAnalysis]_vars

\* the last call was analyze_capacity on a whole census and it returned
AnalyzedCensus == call # None /\ call.op = "analyze_capacity" /\ call.outcome = "ok"

\* C12: for every day is_max_capacity holds exactly when beds used >=
\* TOTAL_BEDS - closed_rooms, or rooms used >= single_rooms + double_rooms, or
\* overflow > 0; every would_turn_away day is an is_max_capacity day, and the
\* reported turn_away_events never exceeds max_capacity_days.
C12_MaxCapacityCoversTurnAway ==
    AnalyzedCensus =>
        /\ \A i \in 1..Len(call.census_data) :
              LET day == call.result.daily[i]
                  row == call.census_data[i]
              IN  /\ day.is_max_capacity
                        <=> \/ day.room_usage.beds_used >= TOTAL_BEDS - row.closed_rooms
                            \/ day.room_usage.rooms_used
                                  >= model.single_rooms + model.double_rooms
                            \/ day.room_usage.overflow_patients > 0
                  /\ day.would_turn_away => day.is_max_capacity
        /\ call.result.turn_away_events <= call.result.max_capacity_days

\* C12 witness: a census with a turn-away day and a day that is at max capacity
\* without turning a patient away
C12_Witness ==
    /\ AnalyzedCensus
    /\ call.result.turn_away_events = 1
    /\ call.result.max_capacity_days = 2

(***************************************************************************)
(* Further properties of the optimiser (under Spec).                       *)
(***************************************************************************)
\* C13 (as claimed): the efficiency of an optimal result of optimize_space is
\* between 0 and 100 percent: its numerator TOTAL_BEDS - total_free_beds -
\* total_wasted_beds - total_wasted_potential is never negative and never
\* exceeds TOTAL_BEDS.
C13_EfficiencyIsPercentage ==
    ReturnedOptimal =>
        /\ returned.value.efficiency[2] = TOTAL_BEDS
        /\ returned.value.efficiency[1]
              = TOTAL_BEDS - returned.value.total_free_beds
                  - returned.value.total_wasted_beds - returned.value.total_wasted_potential
        /\ returned.value.efficiency[1] >= 0
        /\ returned.value.efficiency[1] <= TOTAL_BEDS

(***************************************************************************)
(* Properties of the whole-dataset analysis (under SpecAnalysis).          *)
(***************************************************************************)
\* the last call was model.evaluate() and it returned
EvaluatedCensus == call # None /\ call.op = "evaluate" /\ call.outcome = "ok"

\* C14 (as claimed): every daily efficiency of the evaluation of a model equals
\* (available_beds - wasted_beds - wasted_potential) / available_beds with
\* available_beds = TOTAL_BEDS - closed_rooms, clamped to 0..100 percent, also
\* on a day whose waste exceeds the available beds.
C14_DailyEfficiencyClamped ==
    EvaluatedCensus =>
        \A i \in 1..Len(results_df) :
            LET day == results_df[i]
                available_beds == TOTAL_BEDS - data[i].closed_rooms
                effective == available_beds - day.Wasted_Beds - day.Wasted_Potential
                clamped == IF effective < 0 THEN 0
                           ELSE IF effective > available_beds THEN available_beds
                           ELSE effective
            IN  /\ day.Available_Beds = available_beds
                /\ FloatEq(day.Efficiency, <<clamped * 100, available_beds>>)
                /\ FloatLE(Float(0), day.Efficiency)
                /\ FloatLE(day.Efficiency, Float(100))

(***************************************************************************)
(* Properties of the landscape along the feasible line (under Spec).       *)
(***************************************************************************)
\* C15: for a fixed dataset, between any two configurations of the feasible
\* line the one with more single rooms (and fewer double rooms) has a total of
\* wasted beds that is not larger and a total of wasted potential that is not
\* smaller, in the landscape and by the evaluator alike.
C15_MonotoneAlongFeasibleLine ==
    \A a \in FeasibleLine : \A b \in FeasibleLine :
        (a[1] < b[1]) =>
            /\ b[2] < a[2]
            /\ EvaluatorTotals(data, b[1], b[2]).Wasted_Beds
                  <= EvaluatorTotals(data, a[1], a[2]).Wasted_Beds
            /\ EvaluatorTotals(data, b[1], b[2]).Wasted_Potential
                  >= EvaluatorTotals(data, a[1], a[2]).Wasted_Potential
            /\ landscape # None =>
                  /\ FloatLE(LandscapeValue(landscape, "singles_in_double", b[1], b[2]),
                             LandscapeValue(landscape, "singles_in_double", a[1], a[2]))
                  /\ FloatLE(LandscapeValue(landscape, "doubles_in_single", a[1], a[2]),
                             LandscapeValue(landscape, "doubles_in_single", b[1], b[2]))

\* C15 witness: a landscape in which both totals change strictly along the line
C15_Witness ==
    /\ landscape # None
    /\ data # <<>>
    /\ \E a \in FeasibleLine : \E b \in FeasibleLine :
          /\ a[1] < b[1]
          /\ LandscapeValue(landscape, "singles_in_double", b[1], b[2])[1]
                < LandscapeValue(landscape, "singles_in_double", a[1], a[2])[1]
          /\ LandscapeValue(landscape, "doubles_in_single", a[1], a[2])[1]
                < LandscapeValue(landscape, "doubles_in_single", b[1], b[2])[1]

(***************************************************************************)
(* Repeated runs of the optimiser (under Spec).                            *)
(***************************************************************************)
\* C16: on an optimizer whose dataset (of non-negative counts) is unchanged, a
\* later optimize_space call returns the objective value and the total waste
\* that the earlier call stored, and every call builds its problem afresh: the
\* daily constraints of the dataset and nothing else, no variable holding a
\* value of the earlier solve.
C16_RepeatedRunsAgree ==
    [][/\ (pc = "solved" /\ pc' = "idle" /\ results # None /\ NonNegative(data)) =>
              /\ returned'.kind = "value"
              /\ returned'.value.objective_value = results.objective_value
              /\ returned'.value.total_wasted_beds + returned'.value.total_wasted_potential
                    = results.total_wasted_beds + results.total_wasted_potential
       /\ (pc = "idle" /\ pc' = "built") =>
              /\ Len(problem'.rows) = Len(data)
              /\ \A i \in 1..Len(data) :
                    /\ problem'.rows[i].single_rooms_needed = data[i].single_patients
                    /\ problem'.rows[i].double_rooms_needed = data[i].double_patients
              /\ problem'.constraint_count = 1 + 4 * Len(data) + 2
              /\ solved' = None]_vars

\* C16 witness: a later run is solved while the result of an earlier run, of
\* positive waste, is still stored
C16_Witness ==
    /\ pc = "solved" /\ results # None /\ NonNegative(data)
    /\ solved.status = "Optimal"
    /\ results.objective_value > 0
    /\ Objective(solved.values) = results.objective_value
    /\ solved.values.S # results.single_rooms

(***************************************************************************)
(* Preprocessing (CensusProcessor, DataValidator; SpecPreprocess) and the  *)
(* loading of a census file by the optimiser (SpecIntake).  A raw cell is  *)
(* a number or a text; a sheet is a sequence of raw rows, one per day.     *)
(***************************************************************************)
\* a sheet holds at most MaxSheetRows rows
MaxSheetRows == 2
\* 'Total Patients for Day' of a census file is off by 0..MaxMismatch
MaxMismatch == 1

RawCells == {[kind |-> "text"]} \cup {[kind |-> "num", v |-> n] : n \in Counts}
RawRows == [Single_Room_E : RawCells, Single_Room_F : RawCells,
            Total_Census_Rooms : RawCells, Closed_Rooms : 0..MaxClosed]
RawSheets == UNION {[1..n -> RawRows] : n \in 0..MaxSheetRows}

\* pd.to_numeric(column, errors='coerce').fillna(0)
ToNumeric(cell) == IF cell.kind = "num" THEN cell.v ELSE 0

\* _calculate_patient_counts without the cap at the census
CalculatePatientCountsUncapped(row) ==
    LET single_room_e == ToNumeric(row.Single_Room_E)
        single_room_f == ToNumeric(row.Single_Room_F)
        total_census_rooms == ToNumeric(row.Total_Census_Rooms)
        total_single == single_room_e + single_room_f
        double == Max(total_census_rooms - total_single, 0)
    IN  [Single_Room_E |-> single_room_e,
         Single_Room_F |-> single_room_f,
         Total_Census_Rooms |-> total_census_rooms,
         Closed_Rooms |-> row.Closed_Rooms,
         Total_Single_Room_Patients |-> total_single,
         Double_Room_Patients |-> double,
         Total_Patients_for_Day |-> total_single + double]

\* _calculate_patient_counts, one row
CalculatePatientCounts(row) ==
    LET single_room_e == ToNumeric(row.Single_Room_E)
        single_room_f == ToNumeric(row.Single_Room_F)
        total_census_rooms == ToNumeric(row.Total_Census_Rooms)
        total_single == Min(single_room_e + single_room_f, total_census_rooms)
        double == Max(total_census_rooms - total_single, 0)
    IN  [Single_Room_E |-> single_room_e,
         Single_Room_F |-> single_room_f,
         Total_Census_Rooms |-> total_census_rooms,
         Closed_Rooms |-> row.Closed_Rooms,
         Total_Single_Room_Patients |-> total_single,
         Double_Room_Patients |-> double,
         Total_Patients_for_Day |-> total_single + double]

\* _process_sheet: the counts of every row, Day = index + 1 (the dates of the
\* first MaxSheetRows days of a month are all valid, so no row is dropped);
\* a sheet that validate_processed_sheet refuses (an empty one) adds no record
ProcessSheet(sheet) ==
    IF Len(sheet) = 0 THEN <<>>
    ELSE [i \in 1..Len(sheet) |->
             [Day |-> i] @@ CalculatePatientCounts(sheet[i])]

\* _validate_value_ranges on the columns of the processed frame
ValidateValueRanges(df) ==
    \A i \in 1..Len(df) :
        /\ df[i].Day \in 1..31
        /\ \A col \in {"Single_Room_E", "Single_Room_F", "Total_Single_Room_Patients",
                       "Double_Room_Patients", "Total_Patients_for_Day",
                       "Total_Census_Rooms"} : df[i][col] \in 0..TOTAL_BEDS
        /\ df[i].Closed_Rooms \in 0..13

\* _validate_logical_consistency: no issue found
ValidateLogicalConsistency(df) ==
    \A i \in 1..Len(df) :
        /\ df[i].Single_Room_E + df[i].Single_Room_F = df[i].Total_Single_Room_Patients
        /\ df[i].Total_Single_Room_Patients + df[i].Double_Room_Patients
              = df[i].Total_Patients_for_Day
        /\ df[i].Total_Patients_for_Day <= TOTAL_BEDS - (df[i].Closed_Rooms * 2)

\* validate_dataframe(...)['is_valid'] (the columns, types and dates of a
\* processed frame raise no issue)
ValidateDataframe(df) == ValidateValueRanges(df) /\ ValidateLogicalConsistency(df)

\* process_files on one file of one sheet, called once on a new processor: a
\* failed validation is only logged
ProcessFiles ==
    /\ call = None
    /\ \E sheet \in RawSheets, output_path \in BOOLEAN :
          LET final_df == ProcessSheet(sheet)
          IN  call' = IF Len(final_df) = 0
                      THEN [op |-> "process_files", sheet |-> sheet,
                            outcome |-> "ValueError"]
                      ELSE [op |-> "process_files", sheet |-> sheet,
                            outcome |-> "ok",
                            is_valid |-> ValidateDataframe(final_df),
                            saved |-> output_path,
                            final_df |-> final_df]
    /\ UNCHANGED <<versions, census_file, data, results_df, pc, problem, solved, results, returned, landscape, model>>

\* the census files an optimizer may be pointed at: rows with any total
CensusFileRows ==
    {[single_patients |-> r.single_patients, double_patients |-> r.double_patients,
      closed_rooms |-> r.closed_rooms,
      total_patients |-> r.single_patients + r.double_patients + e] :
        r \in ValidRows, e \in 0..MaxMismatch}
CensusFiles == UNION {[1..n -> CensusFileRows] : n \in 0..MaxDays}

\* WardOptimizer.load_data, called by optimize_space when no data is loaded:
\* the rows of the file are taken as they are (no row lacks 'Single Room E',
\* every date is in YEARS_TO_PROCESS)
LoadData ==
    /\ pc = "unloaded"
    /\ \E file \in CensusFiles : data' = file
    /\ pc' = "idle"
    /\ UNCHANGED <<versions, census_file, results_df, problem, solved, results, returned, landscape, model, call>>

\* a new WardOptimizer: data is None, shown as pc = "unloaded"
InitIntake ==
    /\ data = <<>>
    /\ pc = "unloaded"
    /\ problem = None
    /\ solved = None
    /\ results = None
    /\ returned = None
    /\ landscape = None
    /\ census_file = <<>>
    /\ versions = NoVersions
    /\ model = None
    /\ call = None
    /\ results_df = None

NextIntake ==
    \/ LoadData
    \/ BuildProblem
    \/ SolveProblem
    \/ ExtractResults

SpecIntake == InitIntake /\ [][NextIntake]_vars

\* a new CensusProcessor
InitPreprocess == InitIntake

NextPreprocess == ProcessFiles

SpecPreprocess == InitPreprocess /\ [][NextPreprocess]_vars

\* C17 (as claimed): a census file holding a record whose isolation and
\* pairable counts do not add up to its total is rejected before it reaches
\* the optimizer: optimize_space builds no constraints from it (and so returns
\* no result for it).
C17_MismatchedRecordRejected ==
    (pc # "unloaded" /\ problem # None) =>
        \A i \in 1..Len(data) :
            data[i].single_patients + data[i].double_patients = data[i].total_patients

\* C18: for every raw row whose held-bed and census cells are non-negative
\* numbers (or text, read as 0), the record the preprocessing puts out has
\* Total Single Room Patients <= Total Census Rooms, Double Room Patients >= 0
\* and Total Single Room Patients + Double Room Patients = Total Patients for Day.
C18_ProcessedRecordInvariants ==
    (call # None /\ call.outcome = "ok") =>
        /\ Len(call.final_df) = Len(call.sheet)
        /\ \A i \in 1..Len(call.final_df) :
              LET record == call.final_df[i]
                  raw == call.sheet[i]
              IN  /\ record.Total_Census_Rooms = ToNumeric(raw.Total_Census_Rooms)
                  /\ record.Total_Single_Room_Patients <= record.Total_Census_Rooms
                  /\ record.Total_Single_Room_Patients
                        <= ToNumeric(raw.Single_Room_E) + ToNumeric(raw.Single_Room_F)
                  /\ record.Double_Room_Patients >= 0
                  /\ record.Total_Single_Room_Patients + record.Double_Room_Patients
                        = record.Total_Patients_for_Day

\* C18 witness: a row whose held beds exceed the census (the cap applies) next
\* to a row with pairable patients
C18_Witness ==
    /\ call # None /\ call.outcome = "ok"
    /\ \E i \in 1..Len(call.final_df) :
          /\ ToNumeric(call.sheet[i].Single_Room_E) + ToNumeric(call.sheet[i].Single_Room_F)
                > ToNumeric(call.sheet[i].Total_Census_Rooms)
          /\ call.final_df[i].Total_Single_Room_Patients
                = call.final_df[i].Total_Census_Rooms
          /\ call.final_df[i].Total_Census_Rooms > 0
    /\ \E i \in 1..Len(call.final_df) : call.final_df[i].Double_Room_Patients > 0

(***************************************************************************)
(* The frames handed to the analysis operations (SpecFrame).  A census     *)
(* frame carries a 'Date' column whose cells are strings (a frame read by  *)
(* pd.read_csv) or timestamps; a results frame carries the columns of      *)
(* BaseModel.evaluate, with or without 'Efficiency'.  The caller keeps a   *)
(* reference to the frame it hands over: data and results_df are the       *)
(* caller's frames, and call.given is their value at the time of the call. *)
(***************************************************************************)
DateTypes == {"str", "datetime64"}

\* the census frames a caller holds: day i is dated i, one dtype per column
CensusFrames ==
    {[i \in 1..Len(d) |-> [Date |-> [dtype |-> t, day |-> i]] @@ d[i]] :
        d \in UNION {[1..n -> ValidRows] : n \in 0..MaxDays}, t \in DateTypes}

\* pd.to_datetime of one cell: a string is parsed, a timestamp is kept
ToDatetime(date) == [dtype |-> "datetime64", day |-> date.day]

\* the models whose results are analysed
FrameModels ==
    {m \in ConstructedModels :
        \/ m.cls = "CurrentModel"
        \/ m.single_rooms = DEFAULT_SINGLE_ROOMS /\ m.double_rooms = DEFAULT_DOUBLE_ROOMS}

\* the frame without its 'Efficiency' column
WithoutEfficiency(df) ==
    [i \in 1..Len(df) |-> [col \in DOMAIN df[i] \ {"Efficiency"} |-> df[i][col]]]

\* the results frames a caller holds for a census: what evaluate() gives, or
\* the same frame with the 'Efficiency' column not selected
ResultFrames(m, census) ==
    LET evaluated == [i \in 1..Len(census) |-> EvaluatedRow(m, census[i])]
    IN  {evaluated, WithoutEfficiency(evaluated)}

\* EfficiencyCalculator.calculate_daily_efficiency
CalculateDailyEfficiency(available_beds, wasted_beds, wasted_potential) ==
    LET effective_beds == available_beds - wasted_beds - wasted_potential
    IN  IF available_beds <= 0 THEN Float(0)
        ELSE IF effective_beds < 0 THEN Float(0)
        ELSE IF effective_beds > available_beds THEN Float(100)
        ELSE <<effective_beds * 100, available_beds>>

\* "if 'Efficiency' not in results_df.columns: results_df['Efficiency'] = ..."
\* (the column is assigned on the frame that was passed in)
EnsuredEfficiency(df) ==
    [i \in 1..Len(df) |->
        IF "Efficiency" \in DOMAIN df[i] THEN df[i]
        ELSE [Efficiency |-> CalculateDailyEfficiency(df[i].Available_Beds,
                                                      df[i].Wasted_Beds,
                                                      df[i].Wasted_Potential)] @@ df[i]]

\* the 'Efficiency' column read by the calculator after the assignment
EfficiencyColumn(df) == [i \in 1..Len(df) |-> EnsuredEfficiency(df)[i].Efficiency]

\* OptimizationCharts.__init__: self.data = data, then
\* self.data['Date'] = pd.to_datetime(self.data['Date'])
ChartsData(frame) ==
    [i \in 1..Len(frame) |-> [frame[i] EXCEPT !.Date = ToDatetime(@)]]

\* charts = OptimizationCharts(data)
NewOptimizationCharts ==
    /\ call = None
    /\ data' = ChartsData(data)
    /\ call' = [op |-> "OptimizationCharts", given |-> data]
    /\ UNCHANGED <<versions, census_file, results_df, pc, problem, solved, results, returned, landscape, model>>

\* charts.calculate_optimization_landscape()
ChartsLandscape ==
    /\ call # None
    /\ call.op = "OptimizationCharts"
    /\ landscape = None
    /\ CalculateOptimizationLandscape

\* calculate_efficiency_metrics(results_df) on a non-empty frame; the
\* deviation, variance, median and percentiles of the dictionary are left out
CalculateEfficiencyMetrics ==
    /\ call = None
    /\ Len(results_df) > 0
    /\ results_df' = EnsuredEfficiency(results_df)
    /\ LET efficiency == EfficiencyColumn(results_df)
           days == 1..Len(results_df)
           total_available == SumSeq([i \in days |-> results_df[i].Available_Beds])
           total_wasted_beds == SumSeq([i \in days |-> results_df[i].Wasted_Beds])
           total_wasted_potential ==
               SumSeq([i \in days |-> results_df[i].Wasted_Potential])
       IN  call' = [op |-> "calculate_efficiency_metrics", given |-> results_df,
                    metrics |->
                      [overall_efficiency |->
                           CalculateDailyEfficiency(total_available, total_wasted_beds,
                                                    total_wasted_potential),
                       average_daily_efficiency |-> SeriesMean(efficiency),
                       min_efficiency |-> SeriesMin(efficiency),
                       max_efficiency |-> SeriesMax(efficiency),
                       perfect_efficiency_days |->
                           Cardinality({i \in days : FloatEq(efficiency[i], Float(100))}),
                       zero_efficiency_days |->
                           Cardinality({i \in days : FloatEq(efficiency[i], Float(0))}),
                       days_below_90_percent |->
                           Cardinality({i \in days : ~FloatLE(Float(90), efficiency[i])}),
                       days_below_95_percent |->
                           Cardinality({i \in days : ~FloatLE(Float(95), efficiency[i])})]]
    /\ UNCHANGED <<versions, census_file, data, pc, problem, solved, results, returned, landscape, model>>

\* calculate_rolling_efficiency(results_df) with the default window of 7 days
\* (longer than any frame here) and min_periods=1: the mean of the days so far
CalculateRollingEfficiency ==
    /\ call = None
    /\ Len(results_df) > 0
    /\ results_df' = EnsuredEfficiency(results_df)
    /\ LET efficiency == EfficiencyColumn(results_df)
       IN  call' = [op |-> "calculate_rolling_efficiency", given |-> results_df,
                    rolling |-> [i \in 1..Len(results_df) |->
                                    SeriesMean(SubSeq(efficiency, 1, i))]]
    /\ UNCHANGED <<versions, census_file, data, pc, problem, solved, results, returned, landscape, model>>

\* CapacityAnalyzer(model).analyze_capacity(data)
CapacityAnalysis ==
    /\ call = None
    /\ AnalyzeCapacity

InitFrame ==
    /\ data \in CensusFrames
    /\ model \in FrameModels
    /\ results_df \in ResultFrames(model, data)
    /\ pc = "idle"
    /\ problem = None
    /\ solved = None
    /\ results = None
    /\ returned = None
    /\ landscape = None
    /\ census_file = <<>>
    /\ versions = NoVersions
    /\ call = None

NextFrame ==
    \/ NewOptimizationCharts
    \/ ChartsLandscape
    \/ CalculateEfficiencyMetrics
    \/ CalculateRollingEfficiency
    \/ CapacityAnalysis

SpecFrame == InitFrame /\ [][NextFrame]_vars

\* C19 (as claimed): no analysis operation modifies the dataset it is given:
\* after the construction of the landscape analyzer and its sweep the caller's
\* census frame is what was handed over, after calculate_efficiency_metrics or
\* calculate_rolling_efficiency the caller's results frame has the records and
\* columns it had, and after analyze_capacity the census is unchanged.
C19_DatasetUnmodified ==
    (call # None) =>
        /\ (call.op = "OptimizationCharts") => data = call.given
        /\ (call.op \in {"calculate_efficiency_metrics", "calculate_rolling_efficiency"})
              => results_df = call.given
        /\ (call.op = "analyze_capacity") => data = call.census_data

(***************************************************************************)
(* The optimiser and the capacity analysis run on the same dataset         *)
(* (SpecRun), as run_full_analysis does.                                   *)
(***************************************************************************)
InitRun ==
    /\ data \in UNION {[1..n -> ValidRows] : n \in 0..MaxDays}
    /\ model \in FrameModels
    /\ pc = "idle"
    /\ problem = None
    /\ solved = None
    /\ results = None
    /\ returned = None
    /\ landscape = None
    /\ census_file = <<>>
    /\ versions = NoVersions
    /\ call = None
    /\ results_df = None

NextRun ==
    \/ BuildProblem
    \/ SolveProblem
    \/ ExtractResults
    \/ AnalyzeCapacity

SpecRun == InitRun /\ [][NextRun]_vars

\* C20 (as claimed): on a dataset with zero records, a completed optimize_space
\* call has raised a distinct 'no data' error and returned no result, and a
\* completed analyze_capacity call has raised that error as well.
C20_EmptyDatasetIsNoDataError ==
    /\ (Completed /\ Len(data) = 0) =>
          /\ returned.kind = "raised"
          /\ returned.error = "NoDataError"
    /\ (call # None /\ call.op = "analyze_capacity" /\ Len(call.census_data) = 0) =>
          call.outcome = "NoDataError"

(***************************************************************************)
(* The ILP solved over all of its integer solutions (SpecILP): every       *)
(* variable of the problem is enumerated, none is fixed beforehand.         *)
(***************************************************************************)
\* the enumerated datasets leave the daily variables at most MaxAssignments
\* joint values
MaxAssignments == 1000

RECURSIVE AssignmentCount(_)
\* the number of joint values within the caps 0..single_rooms_needed and
\* 0..double_rooms_needed of every day
AssignmentCount(d) ==
    IF d = <<>> THEN 1
    ELSE (Head(d).single_patients + 1) * (Head(d).double_patients + 1)
            * AssignmentCount(Tail(d))

\* the datasets of the enumerated ILP: one day of any counts, or up to
\* MaxDays days of counts from Counts
ILPDatasets ==
    {<<r>> : r \in [single_patients : 0..MaxPatients, double_patients : 0..MaxPatients,
                    closed_rooms : {0}]}
    \cup {d \in UNION {[1..n -> [single_patients : Counts, double_patients : Counts,
                                 closed_rooms : {0}]] : n \in 0..MaxDays} :
             AssignmentCount(d) <= MaxAssignments}

RECURSIVE DailyAssignments(_, _, _)
\* the values the daily variables may take together for given D and S
DailyAssignments(rows, D, S) ==
    IF rows = <<>> THEN {<<>>}
    ELSE {<<[single_in_double |-> a, double_in_single |-> b]>> \o rest :
             a \in SingleInDoubleValues(Head(rows).single_rooms_needed, S),
             b \in DoubleInSingleValues(Head(rows).double_rooms_needed, D),
             rest \in DailyAssignments(Tail(rows), D, S)}

\* the integer solutions of the built problem: D and S within their bounds on
\* the bed constraint, the daily variables within their constraints, the
\* totals given by the accumulation equalities
Solutions(p) ==
    UNION {{[D |-> c[1], S |-> c[2],
             single_in_double |-> [i \in 1..Len(f) |-> f[i].single_in_double],
             double_in_single |-> [i \in 1..Len(f) |-> f[i].double_in_single],
             total_wasted_beds |-> SumSeq([i \in 1..Len(f) |-> f[i].single_in_double]),
             total_wasted_potential |->
                 SumSeq([i \in 1..Len(f) |-> f[i].double_in_single])] :
               f \in DailyAssignments(p.rows, c[1], c[2])} :
           c \in {k \in (0..MAX_DOUBLE_ROOMS) \X (0..MAX_SINGLE_ROOMS) :
                     BedCapacityConstraint(k[1], k[2])}}

\* the solutions of least objective
MinimizingSolutions(p) ==
    LET sols == Solutions(p)
        best == Least({Objective(x) : x \in sols})
    IN  {x \in sols : Objective(x) = best}

\* _solve_problem ending Optimal: the solver leaves one of the solutions of
\* least objective in the variables (these datasets are all feasible)
SolveILP ==
    /\ pc = "built"
    /\ \E x \in MinimizingSolutions(problem) :
          solved' = [status |-> "Optimal", assigned |-> TRUE, values |-> x]
    /\ pc' = "solved"
    /\ UNCHANGED <<versions, census_file, data, results_df, problem, results, returned, landscape, model, call>>

\* the first optimize_space run of a new optimizer, up to the solve
FirstBuild ==
    /\ results = None
    /\ returned = None
    /\ BuildProblem

InitILP ==
    /\ data \in ILPDatasets
    /\ pc = "idle"
    /\ problem = None
    /\ solved = None
    /\ results = None
    /\ returned = None
    /\ landscape = None
    /\ census_file = <<>>
    /\ versions = NoVersions
    /\ model = None
    /\ call = None
    /\ results_df = None

NextILP ==
    \/ FirstBuild
    \/ SolveILP
    \/ ExtractResults

SpecILP == InitILP /\ [][NextILP]_vars

\* C21: in every optimal solution of the ILP with the default objective, each
\* daily variable is the evaluator's value for the chosen (S, D):
\* single_in_double_i = max(0, isolation_i - S) and double_in_single_i =
\* max(0, pairable_i - 2 * D); so the totals of the solution, and the totals a
\* completed run reports, are the evaluator's sums for that configuration.
C21_AuxiliariesAreEvaluatorValues ==
    /\ (pc = "solved") =>
          LET x == solved.values
              sums == EvaluatorTotals(data, x.S, x.D)
          IN  /\ Len(x.single_in_double) = Len(data)
              /\ \A i \in 1..Len(data) :
                    /\ x.single_in_double[i] = Max(0, data[i].single_patients - x.S)
                    /\ x.double_in_single[i] = Max(0, data[i].double_patients - 2 * x.D)
                    /\ x.single_in_double[i] = EvaluateDay(x.S, x.D, data[i]).Wasted_Beds
                    /\ x.double_in_single[i]
                          = EvaluateDay(x.S, x.D, data[i]).Wasted_Potential
              /\ x.total_wasted_beds = sums.Wasted_Beds
              /\ x.total_wasted_potential = sums.Wasted_Potential
    /\ ReturnedValue =>
          LET v == returned.value
              sums == EvaluatorTotals(data, v.single_rooms, v.double_rooms)
          IN  /\ v.total_wasted_beds = sums.Wasted_Beds
              /\ v.total_wasted_potential = sums.Wasted_Potential

\* C21 witness: two days of conflicting demand solved with both kinds of daily
\* variable positive, above the lower limit 0 and below the cap
C21_Witness ==
    /\ pc = "solved" /\ Len(data) = 2
    /\ \E i \in 1..2 : /\ solved.values.single_in_double[i] > 0
                       /\ solved.values.single_in_double[i] < data[i].single_patients
    /\ \E i \in 1..2 : /\ solved.values.double_in_single[i] > 0
                       /\ solved.values.double_in_single[i] < data[i].double_patients

\* the scenario dataset of one record: 20 isolation patients, no pairable
\* patient, no closed room
IsolationOnlyDay == <<[single_patients |-> 20, double_patients |-> 0, closed_rooms |-> 0]>>

\* C22: for the dataset of the one record {isolation 20, pairable 0, closed 0}
\* the minimum total waste is 0 (for the optimizer and for the landscape), every
\* minimum-waste configuration has single_rooms >= 20, configuration (S=20, D=3)
\* has wasted_beds 0 and configuration (S=0, D=13) has wasted_beds 20.
C22_IsolationOnlyScenario ==
    (data = IsolationOnlyDay) =>
        /\ Completed =>
              /\ returned.kind = "value"
              /\ returned.value.solver_status = "Optimal"
              /\ returned.value.total_wasted_beds + returned.value.total_wasted_potential = 0
              /\ returned.value.single_rooms >= 20
        /\ (landscape # None) =>
              /\ LandscapeMinimum(landscape) = 0
              /\ \A c \in FeasibleLine :
                    FloatEq(LandscapeValue(landscape, "objective_values", c[1], c[2]),
                            Float(0)) <=> c[1] >= 20
              /\ LandscapeValue(landscape, "singles_in_double", 20, 3) = Float(0)
              /\ LandscapeValue(landscape, "singles_in_double", 0, 13) = Float(20)
        /\ EvaluateDay(20, 3, data[1]).Wasted_Beds = 0
        /\ EvaluateDay(0, 13, data[1]).Wasted_Beds = 20
        /\ \A c \in FeasibleLine :
              LET totals == EvaluatorTotals(data, c[1], c[2])
              IN  (totals.Wasted_Beds + totals.Wasted_Potential = 0) <=> c[1] >= 20

\* C22 witness: the scenario solved and swept
C22_Witness ==
    /\ data = IsolationOnlyDay
    /\ ReturnedOptimal
    /\ landscape # None

(***************************************************************************)
(* The life of one WardOptimizer (SpecOptimizer): runs of optimize_space   *)
(* and, between runs, get_results_dict and save_results.                   *)
(***************************************************************************)
\* get_results_dict(): self.results is returned
GetResultsDict ==
    /\ pc = "idle"
    /\ call' = [op |-> "get_results_dict", outcome |-> "ok", value |-> results]
    /\ UNCHANGED <<versions, census_file, data, results_df, pc, problem, solved, results, returned, landscape, model>>

\* save_results(): ValueError while self.results is None, otherwise the
\* dictionary is written to the output file
SaveResults ==
    /\ pc = "idle"
    /\ call' = IF results = None
               THEN [op |-> "save_results", outcome |-> "ValueError", value |-> None]
               ELSE [op |-> "save_results", outcome |-> "ok", value |-> results]
    /\ UNCHANGED <<versions, census_file, data, results_df, pc, problem, solved, results, returned, landscape, model>>

NextOptimizer ==
    \/ BuildProblem
    \/ SolveProblem
    \/ ExtractResults
    \/ GetResultsDict
    \/ SaveResults

SpecOptimizer == Init /\ [][NextOptimizer]_vars

\* C23: a WardOptimizer starts unsolved (no results, no problem); its stored
\* results change only when a run of optimize_space ends by returning, and then
\* they are exactly the tuple that run returned, with the one status the solve
\* ended in.  So before the first completed run get_results_dict returns None
\* and save_results raises ValueError, and neither call changes any state of
\* the optimizer; after a completed run the stored results are the returned
\* tuple, which is what get_results_dict returns and save_results writes.
C23_OptimizerLifecycle ==
    /\ [](pc \in {"idle", "built", "solved"})
    /\ []((pc = "idle" /\ returned = None /\ solved = None) => results = None)
    /\ [](ReturnedValue =>
            /\ results = returned.value
            /\ results.solver_status = solved.status
            /\ results.solver_status \in {"Optimal", "Infeasible"})
    /\ [][/\ (results' # results) =>
                /\ pc = "solved" /\ pc' = "idle"
                /\ returned'.kind = "value"
                /\ results' = returned'.value
          /\ (pc = "idle" /\ pc' = "built") => solved' = None
          /\ (pc = "built") => pc' = "solved"
          /\ (pc = "solved") => pc' = "idle" /\ returned' # None
          /\ (call' # call) =>
                /\ UNCHANGED <<data, pc, problem, solved, results, returned>>
                /\ call'.op \in {"get_results_dict", "save_results"}
                /\ call'.value = results
                /\ (call'.outcome = "ValueError")
                      <=> (call'.op = "save_results" /\ results = None)]_vars

\* C23 witness: a new optimizer asked for its results and to save them, then
\* run to completion and asked again
C23_Witness ==
    /\ ReturnedValue
    /\ results # None
    /\ call # None /\ call.op = "save_results" /\ call.outcome = "ValueError"

\* model_current.py, CurrentModelEvaluator.calculate_wasted_beds, the loop
\* body: the waste of one day
CalculateWastedBeds(row) ==
    [Wasted_Beds |-> row.single_patients + row.closed_rooms, Wasted_Potential |-> 0]

\* C24 (as claimed): for every record, the current-model evaluator
\* (CurrentModel.evaluate_day, and the legacy calculate_wasted_beds) gives the
\* wasted_beds and wasted_potential that the generic evaluator gives for the
\* configuration (single_rooms = 0, double_rooms = TOTAL_BEDS / 2).
C24_CurrentModelIsGenericPoint ==
    (Evaluated /\ model.cls = "CurrentModel") =>
        LET generic == EvaluateDay(0, TOTAL_BEDS \div 2, call.row)
        IN  /\ call.result.Wasted_Beds = generic.Wasted_Beds
            /\ call.result.Wasted_Potential = generic.Wasted_Potential
            /\ CalculateWastedBeds(call.row).Wasted_Beds = generic.Wasted_Beds
            /\ CalculateWastedBeds(call.row).Wasted_Potential = generic.Wasted_Potential

\* C25 (as claimed): every pair within the room bounds with
\* single_rooms + 2 * double_rooms = TOTAL_BEDS, the pairs (0, TOTAL_BEDS / 2)
\* and (TOTAL_BEDS, 0) included, can be constructed as an OptimizedModel or a
\* CustomModel, and the constructed model holds exactly the supplied counts.
C25_FeasiblePairConstructible ==
    (/\ Constructor /\ call.op \in {"OptimizedModel", "CustomModel"}
     /\ call.single_rooms # <<>> /\ call.double_rooms # <<>>
     /\ call.single_rooms[1] + 2 * call.double_rooms[1] = TOTAL_BEDS) =>
        /\ call.outcome = "ok"
        /\ model.single_rooms = call.single_rooms[1]
        /\ model.double_rooms = call.double_rooms[1]

\* C26 (as claimed): the room assignment of _calculate_room_usage is physically
\* possible for every configuration and day: the double rooms taken by overflow
\* isolation patients plus those holding pairable patients never exceed
\* double_rooms, the single rooms used never exceed single_rooms, and
\* rooms_used <= single_rooms + double_rooms.
C26_AssignmentPhysicallyPossible ==
    Analyzed =>
        LET u == call.result.room_usage
            pairable_rooms == (u.doubles_in_double + DOUBLE_ROOM_CAPACITY - 1)
                                 \div DOUBLE_ROOM_CAPACITY
        IN  /\ u.singles_in_double + pairable_rooms <= model.double_rooms
            /\ u.singles_in_single + u.doubles_in_single <= model.single_rooms
            /\ u.rooms_used <= model.single_rooms + model.double_rooms

(***************************************************************************)
(* The full-analysis pipeline on one training data file (SpecPipeline):    *)
(* the optimizer and the model evaluators load the file themselves, the    *)
(* capacity analyzer and the landscape analyzer are handed census_data,    *)
(* the frame read from the file.  A file row carries, besides the counts,  *)
(* the year of its date and whether its 'Single Room E' cell is empty.     *)
(***************************************************************************)
\* the years of the raw census files
FileYears == {2022, 2023, 2024}
\* config.OPTIMIZATION['years_to_process']; the configuration file is not
\* among the sources, the value is the one the scripts of the repository
\* filter for
YEARS_TO_PROCESS == {2023, 2024}

PipelineFileRows ==
    [single_patients : Counts, double_patients : Counts, closed_rooms : {0},
     year : FileYears, single_room_e_missing : BOOLEAN]
PipelineFiles == UNION {[1..n -> PipelineFileRows] : n \in 0..MaxDays}

\* the row filter of load_data: dropna(subset=['Single Room E']), then the
\* rows whose year is in YEARS_TO_PROCESS
KeptByLoadData(row) == ~row.single_room_e_missing /\ row.year \in YEARS_TO_PROCESS
\* load_data of WardOptimizer and of BaseModel: the rows of the file it keeps
LoadedData(file) == SelectSeq(file, KeptByLoadData)

\* the models the pipeline evaluates: CurrentModel() and OptimizedModel()
PipelineModels ==
    {CurrentModelInit.object, OptimizedModelInit("OptimizedModel", <<>>, <<>>).object}

\* step 2: optimizer = WardOptimizer(); optimize_space() loads the file
PipelineLoadData ==
    /\ pc = "unloaded"
    /\ data' = LoadedData(census_file)
    /\ pc' = "idle"
    /\ UNCHANGED <<versions, census_file, results_df, problem, solved, results, returned, landscape,
                   model, call>>

\* step 3: model.evaluate(training_data_path) after the optimizer returned;
\* BaseModel.load_data keeps the rows WardOptimizer.load_data keeps
PipelineEvaluate ==
    /\ ReturnedValue
    /\ call = None
    /\ Evaluate

\* step 4: CapacityAnalyzer(model).analyze_capacity(census_data)
PipelineCapacity ==
    /\ call # None
    /\ call.op = "evaluate" /\ call.outcome = "ok"
    /\ LET r == AnalyzeCapacityResults(model, census_file)
       IN  call' = [op |-> "analyze_capacity", census_data |-> census_file,
                    outcome |-> r.outcome,
                    result |-> IF r.outcome = "ok" THEN r.value ELSE None]
    /\ UNCHANGED <<versions, census_file, data, results_df, pc, problem, solved, results, returned,
                   landscape, model>>

\* step 5: OptimizationCharts(census_data), then the sweep of its report
PipelineLandscape ==
    /\ call # None
    /\ call.op = "analyze_capacity" /\ call.outcome = "ok"
    /\ landscape = None
    /\ landscape' = CalculatedLandscape(census_file)
    /\ UNCHANGED <<versions, census_file, data, results_df, pc, problem, solved, results, returned,
                   model, call>>

InitPipeline ==
    /\ census_file \in PipelineFiles
    /\ versions = NoVersions
    /\ model \in PipelineModels
    /\ data = <<>>
    /\ pc = "unloaded"
    /\ problem = None
    /\ solved = None
    /\ results = None
    /\ returned = None
    /\ landscape = None
    /\ call = None
    /\ results_df = None

NextPipeline ==
    \/ PipelineLoadData
    \/ FirstBuild
    \/ SolveProblem
    \/ ExtractResults
    \/ PipelineEvaluate
    \/ PipelineCapacity
    \/ PipelineLandscape

SpecPipeline == InitPipeline /\ [][NextPipeline]_vars

\* C27 (as claimed): in one pipeline run the optimizer (and the evaluators,
\* which load as it does), the capacity analyzer and the landscape analyzer
\* work on the same demand records: the optimizer's dataset holds the records
\* of the file, the census analysed is that dataset, and the landscape is the
\* sweep of that dataset, so its minimum is the objective the optimizer
\* reported.
C27_PipelineSameRecords ==
    /\ (pc # "unloaded") => data = census_file
    /\ (call # None /\ call.op = "analyze_capacity") => call.census_data = data
    /\ (landscape # None) =>
          /\ landscape = CalculatedLandscape(data)
          /\ LandscapeMinimum(landscape) = returned.value.objective_value

(***************************************************************************)
(* The legacy capacity script (max_capacity.py) beside the CapacityAnalyzer *)
(***************************************************************************)
\* analyze_configuration, the loop body for one row of the merged frame
AnalyzeConfiguration(row, is_current_model) ==
    LET double_rooms == IF is_current_model THEN 13 ELSE 8
        single_rooms == IF is_current_model THEN 0 ELSE 10
        single_room_patients == row.single_patients
        double_room_patients == row.double_patients
        total_patients == row.single_patients + row.double_patients
    IN  IF is_current_model
        THEN LET rooms_for_single_patients == single_room_patients
                 rooms_for_double_patients == (double_room_patients + 1) \div 2
                 occupied_double_rooms == rooms_for_single_patients
                                             + rooms_for_double_patients
             IN  [is_max_capacity |-> \/ occupied_double_rooms >= double_rooms
                                      \/ total_patients >= 26,
                  would_turn_away |-> occupied_double_rooms > double_rooms]
        ELSE LET single_rooms_used == Min(single_room_patients, single_rooms)
                 remaining_single_patients == Max(0, single_room_patients - single_rooms)
                 double_rooms_for_isolation == remaining_single_patients
                 available_double_rooms == double_rooms - double_rooms_for_isolation
                 available_beds_for_doubles == (single_rooms - single_rooms_used)
                                                  + (available_double_rooms * 2)
             IN  [is_max_capacity |-> total_patients >= 26,
                  would_turn_away |-> double_room_patients > available_beds_for_doubles]

\* C28 (as claimed): for the configurations (0 single, 13 double) and
\* (10 single, 8 double) and every day with non-negative counts, the
\* CapacityAnalyzer flags would_turn_away on exactly the days the legacy
\* calculate_max_capacity_events flags as turn-away.
C28_TurnAwayAsLegacy ==
    Analyzed =>
        /\ (model.single_rooms = 0 /\ model.double_rooms = 13) =>
              (call.result.would_turn_away
                 <=> AnalyzeConfiguration(call.row, TRUE).would_turn_away)
        /\ (model.single_rooms = 10 /\ model.double_rooms = 8) =>
              (call.result.would_turn_away
                 <=> AnalyzeConfiguration(call.row, FALSE).would_turn_away)

\* C29 (as claimed): every sheet _calculate_patient_counts produces passes the
\* DataValidator's logical-consistency checks, for every raw row with
\* non-negative counts: Total Single Room Patients = Single Room E + Single
\* Room F, and Total Patients for Day = Total Single Room Patients + Double
\* Room Patients.
C29_ProcessedSheetIsConsistent ==
    (call # None /\ call.outcome = "ok") =>
        \A i \in 1..Len(call.final_df) :
            LET record == call.final_df[i]
            IN  /\ record.Single_Room_E + record.Single_Room_F
                      = record.Total_Single_Room_Patients
                /\ record.Total_Single_Room_Patients + record.Double_Room_Patients
                      = record.Total_Patients_for_Day

(***************************************************************************)
(* DataVersionManager (SpecVersions): the version table is the dictionary  *)
(* self.versions["versions"], kept as its entries in insertion order, and  *)
(* the pointer is self.versions["current"].  The files of a version are    *)
(* written and removed without error; datetime.now() is local time and may *)
(* step back, so a call reads any stamp.                                   *)
(***************************************************************************)
\* version numbers are 1..MaxVersionNumber
MaxVersionNumber == 4
\* the clock reads 0..MaxStamp
MaxStamp == 2
\* keep_last is -1..MaxKeepLast
MaxKeepLast == 2

Stamps == 0..MaxStamp
VersionIds == [number : 1..MaxVersionNumber, stamp : Stamps]
KeepLasts == (0 - 1)..MaxKeepLast

\* the keys of self.versions["versions"]
TableIds(v) == {v.versions[i].version_id : i \in 1..Len(v.versions)}

\* _generate_version_id: "v{next_number:03d}_{timestamp}"
GenerateVersionId(v, timestamp) ==
    LET version_numbers == {id.number : id \in TableIds(v)}
        next_number == IF version_numbers # {}
                       THEN (CHOOSE n \in version_numbers :
                                \A m \in version_numbers : m <= n) + 1
                       ELSE 1
    IN  [number |-> next_number, stamp |-> timestamp]

\* self.versions["versions"][version_id] = metadata
DictSet(entries, version_id, metadata) ==
    IF \E i \in 1..Len(entries) : entries[i].version_id = version_id
    THEN [i \in 1..Len(entries) |->
             IF entries[i].version_id = version_id THEN metadata ELSE entries[i]]
    ELSE Append(entries, metadata)

\* create_version: both clock readings of the call give the same stamp
CreateVersion ==
    /\ \E timestamp \in Stamps :
          LET version_id == GenerateVersionId(versions, timestamp)
              metadata == [version_id |-> version_id,
                           timestamp |-> timestamp,
                           parent_version |-> versions.current]
          IN  /\ version_id.number <= MaxVersionNumber
              /\ versions' = [versions |-> DictSet(versions.versions, version_id, metadata),
                              current |-> version_id]
              /\ call' = [op |-> "create_version", outcome |-> "ok",
                          value |-> version_id]
    /\ UNCHANGED <<census_file, data, results_df, pc, problem, solved, results, returned, landscape, model>>

\* sorted(versions_list, key=timestamp, reverse=True): a stable sort
RECURSIVE SortedByTimestamp(_)
SortedByTimestamp(l) ==
    IF l = <<>> THEN <<>>
    ELSE LET latest == CHOOSE i \in 1..Len(l) :
                          /\ \A j \in 1..Len(l) : l[j].timestamp <= l[i].timestamp
                          /\ \A j \in 1..(i - 1) : l[j].timestamp < l[i].timestamp
             rest == [j \in 1..(Len(l) - 1) |-> IF j < latest THEN l[j] ELSE l[j + 1]]
         IN  <<l[latest]>> \o SortedByTimestamp(rest)

\* list_versions
ListVersions(v) ==
    SortedByTimestamp([i \in 1..Len(v.versions) |->
        [version_id |-> v.versions[i].version_id,
         timestamp |-> v.versions[i].timestamp,
         is_current |-> v.versions[i].version_id = v.current]])

\* versions_list[keep_last:]
SliceFrom(l, keep_last) ==
    LET start == IF keep_last >= 0 THEN Min(keep_last, Len(l))
                 ELSE Max(Len(l) + keep_last, 0)
    IN  SubSeq(l, start + 1, Len(l))

\* cleanup_old_versions that removes the current version as well
CleanupOldVersionsAll(keep_last) ==
    /\ LET versions_list == ListVersions(versions)
           versions_to_remove == SliceFrom(versions_list, keep_last)
           removed == IF Len(versions_list) <= keep_last THEN {}
                      ELSE {versions_to_remove[i].version_id :
                               i \in 1..Len(versions_to_remove)}
           Kept(metadata) == metadata.version_id \notin removed
       IN  /\ versions' = [versions EXCEPT !.versions = SelectSeq(@, Kept)]
           /\ call' = [op |-> "cleanup_old_versions", outcome |-> "ok",
                       keep_last |-> keep_last, removed |-> removed]
    /\ UNCHANGED <<census_file, data, results_df, pc, problem, solved, results, returned, landscape, model>>

\* cleanup_old_versions(keep_last)
CleanupOldVersions(keep_last) ==
    /\ LET versions_list == ListVersions(versions)
           versions_to_remove == SliceFrom(versions_list, keep_last)
           removed == IF Len(versions_list) <= keep_last THEN {}
                      ELSE {versions_to_remove[i].version_id :
                               i \in {j \in 1..Len(versions_to_remove) :
                                         ~versions_to_remove[j].is_current}}
           Kept(metadata) == metadata.version_id \notin removed
       IN  /\ versions' = [versions EXCEPT !.versions = SelectSeq(@, Kept)]
           /\ call' = [op |-> "cleanup_old_versions", outcome |-> "ok",
                       keep_last |-> keep_last, removed |-> removed]
    /\ UNCHANGED <<census_file, data, results_df, pc, problem, solved, results, returned, landscape, model>>

\* rollback_to_version(version_id)
RollbackToVersion(version_id) ==
    /\ IF version_id \notin TableIds(versions)
       THEN /\ call' = [op |-> "rollback_to_version", outcome |-> "ValueError",
                        version_id |-> version_id]
            /\ UNCHANGED versions
       ELSE /\ versions' = [versions EXCEPT !.current = version_id]
            /\ call' = [op |-> "rollback_to_version", outcome |-> "ok",
                        version_id |-> version_id]
    /\ UNCHANGED <<census_file, data, results_df, pc, problem, solved, results, returned, landscape, model>>

\* DataVersionManager(base_path) on a directory without metadata file
InitVersions ==
    /\ data = <<>>
    /\ pc = "idle"
    /\ problem = None
    /\ solved = None
    /\ results = None
    /\ returned = None
    /\ landscape = None
    /\ census_file = <<>>
    /\ versions = NoVersions
    /\ model = None
    /\ call = None
    /\ results_df = None

NextVersions ==
    \/ CreateVersion
    \/ \E version_id \in VersionIds : RollbackToVersion(version_id)
    \/ \E keep_last \in KeepLasts : CleanupOldVersions(keep_last)

SpecVersions == InitVersions /\ [][NextVersions]_vars

\* C30: after any sequence of create_version, rollback_to_version and
\* cleanup_old_versions calls the current pointer is unset or names a version
\* of the version table; cleanup_old_versions never removes the current
\* version (nor moves the pointer), and a rollback fails exactly for a version
\* that is not in the table and then leaves the pointer, and the table,
\* as they were.
C30_CurrentPointerValid ==
    /\ [](versions.current = None \/ versions.current \in TableIds(versions))
    /\ [][(call'.op = "cleanup_old_versions") =>
             /\ versions'.current = versions.current
             /\ versions.current # None => versions.current \in TableIds(versions')
             /\ TableIds(versions') = TableIds(versions) \ call'.removed]_vars
    /\ [][(call'.op = "rollback_to_version") =>
             /\ (call'.outcome = "ValueError")
                   <=> (call'.version_id \notin TableIds(versions))
             /\ (call'.outcome = "ValueError") => versions' = versions
             /\ (call'.outcome = "ok") => versions'.current = call'.version_id]_vars

\* C30 witness: a cleanup has removed versions and left more than keep_last
\* of them, because the current version was among the old ones
C30_Witness ==
    /\ call # None /\ call.op = "cleanup_old_versions"
    /\ call.removed # {}
    /\ call.keep_last >= 0
    /\ Len(versions.versions) > call.keep_last
    /\ versions.current # None
    /\ \E i \in 1..Len(versions.versions) :
          versions.versions[i].timestamp > versions.current.stamp

====
